---------------------------- MODULE Spec2Model ----------------------------
(***************************************************************************)
(* A model of data_scripts/analyze_data.py: the loader parse_csv_rows, the *)
(* pairwise analysis analyze_data_significant_difference with the          *)
(* comparator welch_t_test_with_confidence_interval, and the aggregate     *)
(* store update create_or_update_aggregate_csv, as main() chains them.     *)
(*                                                                         *)
(* Conventions.                                                            *)
(*  - A mechanism name is the sequence of the tokens it is spelt with, so  *)
(*    that str.startswith is the prefix relation on sequences.             *)
(*  - A float is a fixed-point integer in hundredths (Scale), or one of     *)
(*    the values NaN / Inf; None is Python's None (a cell never assigned).  *)
(*  - A data frame is a sequence of rows; a CSV file is the text of its    *)
(*    cells, an empty cell being the string "".                            *)
(***************************************************************************)
EXTENDS Integers, Sequences, FiniteSets, TLC

\* ------------------------------------------------------------------ bounds
\* Rows of a raw results file (SpecParse).
MaxRawRows == 4
\* Rows of the merged frame main() analyses (Spec).
MaxRows == 4
\* Calls of create_or_update_aggregate_csv on one store (SpecSequential,
\* SpecConcurrent).
MaxCalls == 3
\* Rows of each of the two parsed frames main() merges (SpecMerge).
MaxTableRows == 3
\* Rows of the aggregate CSV analyze_aggregate_data.py reads (SpecChart).
MaxStoreRows == 3

\* ------------------------------------------------------- program constants
DOCKER_OVERHEAD_EXCLUDE_DAEMON == 0
DOCKER_OVERHEAD_INCLUDE_FULL_DAEMON == 1
DOCKER_OVERHEAD_INCLUDE_ADDITIONAL_DAEMON == 2

\* The non-metric columns every row carries as fields idx, mech and trial.
NON_METRIC_COLUMNS == <<"index", "deployment-mechanism", "trial-number">>
COMPUTED_COLUMNS == <<"instructions-per-cycle", "cycles-per-instruction">>

\* Fixed point: 1.00 is Scale (hundredths, the two decimals of ":.2f").
Scale == 10 * 10

\* A cell: an integer as read from a results file (kind "int", v the number),
\* a float (kind "float", v in hundredths), nan, inf, or None.
IntCell(n) == [k |-> "int", v |-> n]
FloatCell(h) == [k |-> "float", v |-> h]
NaN == [k |-> "nan", v |-> 0]
Inf == [k |-> "inf", v |-> 0]
None == [k |-> "none", v |-> 0]

\* ------------------------------------------------------------ small helpers
Range(s) == {s[i] : i \in DOMAIN s}

SeqsUpTo(S, n) == UNION {[1..k -> S] : k \in 0..n}

\* Body applied to the value of v: v is evaluated once, where an operator
\* argument or a LET definition is evaluated again at each of its uses.
Force(v, Body(_)) == CHOOSE r \in {Body(x) : x \in {v}} : TRUE

\* str.startswith on token sequences.
StartsWith(name, prefix) ==
    /\ Len(prefix) <= Len(name)
    /\ SubSeq(name, 1, Len(prefix)) = prefix

\* ---------------------------------------------------------- mechanism names
Docker == <<"docker">>
DockerContainer == <<"docker", "_container">>
DockerContainerAndDaemon == <<"docker", "_container", "_and_daemon">>
DockerContainerAndDaemonExtraOverhead ==
    <<"docker", "_container", "_and_daemon", "_extra_overhead">>
Native == <<"native">>
WasmAot == <<"wasm_aot">>

\* The mechanism names of a raw results file: the three docker variants the
\* overhead views tell apart, and a non-docker mechanism.
RawMechanisms ==
    {DockerContainer, DockerContainerAndDaemon,
     DockerContainerAndDaemonExtraOverhead, Native}

\* ------------------------------------------------------------ parse_csv_rows
\* Float division of two columns (numpy): x / 0 is inf, 0 / 0 is nan.
FloatDiv(a, b) ==
    IF b.v = 0 THEN (IF a.v = 0 THEN NaN ELSE Inf)
    ELSE FloatCell((a.v * Scale) \div b.v)

\* df.drop(df.columns.difference(NON_METRIC_COLUMNS + metrics), axis=1)
DropUnrequestedColumns(table, metrics) ==
    LET keep == SelectSeq(table.columns, LAMBDA c : c \in Range(metrics))
    IN [columns |-> keep,
        rows |-> [i \in DOMAIN table.rows |->
                    [table.rows[i] EXCEPT
                       !.vals = [c \in Range(keep) |-> table.rows[i].vals[c]]]]]

\* The mutant of RenameForView: every view matches its name by prefix.
RenameForViewByPrefix(mech, view) ==
    IF view = DOCKER_OVERHEAD_EXCLUDE_DAEMON
    THEN (IF StartsWith(mech, DockerContainer) THEN Docker ELSE mech)
    ELSE IF view = DOCKER_OVERHEAD_INCLUDE_FULL_DAEMON
    THEN (IF StartsWith(mech, DockerContainerAndDaemon) THEN Docker ELSE mech)
    ELSE IF view = DOCKER_OVERHEAD_INCLUDE_ADDITIONAL_DAEMON
    THEN (IF StartsWith(mech, DockerContainerAndDaemon) THEN Docker ELSE mech)
    ELSE mech

\* The renaming lambda of each docker overhead view.
RenameForView(mech, view) ==
    IF view = DOCKER_OVERHEAD_EXCLUDE_DAEMON
    THEN (IF mech = DockerContainer THEN Docker ELSE mech)
    ELSE IF view = DOCKER_OVERHEAD_INCLUDE_FULL_DAEMON
    THEN (IF StartsWith(mech, DockerContainerAndDaemon) THEN Docker ELSE mech)
    ELSE IF view = DOCKER_OVERHEAD_INCLUDE_ADDITIONAL_DAEMON
    THEN (IF StartsWith(mech, DockerContainerAndDaemonExtraOverhead)
          THEN Docker ELSE mech)
    ELSE mech

\* The row filters of each view, applied to the renamed name: TRUE when the
\* row is removed.
RemovedByView(mech, view) ==
    IF view = DOCKER_OVERHEAD_EXCLUDE_DAEMON
    THEN StartsWith(mech, DockerContainerAndDaemon)
    ELSE IF view = DOCKER_OVERHEAD_INCLUDE_FULL_DAEMON
    THEN \/ StartsWith(mech, DockerContainer)
         \/ StartsWith(mech, DockerContainerAndDaemonExtraOverhead)
    ELSE IF view = DOCKER_OVERHEAD_INCLUDE_ADDITIONAL_DAEMON
    THEN \/ StartsWith(mech, DockerContainer)
         \/ StartsWith(mech, DockerContainerAndDaemon)
    ELSE FALSE

\* The policy step: rename, then filter.
ApplyDockerOverheadView(rows, view) ==
    LET renamed == [i \in DOMAIN rows |->
                      [rows[i] EXCEPT !.mech = RenameForView(rows[i].mech, view)]]
    IN SelectSeq(renamed, LAMBDA r : ~RemovedByView(r.mech, view))

\* The mutant of AddComputedColumns: the two ratios taken the other way round.
AddComputedColumnsSwapped(table, is_perf_file) ==
    IF /\ is_perf_file
       /\ "cpu-cycles" \in Range(table.columns)
       /\ "instructions" \in Range(table.columns)
    THEN [columns |-> table.columns \o COMPUTED_COLUMNS,
          rows |-> [i \in DOMAIN table.rows |->
                      LET v == table.rows[i].vals
                      IN [table.rows[i] EXCEPT
                            !.vals = [c \in Range(table.columns) \cup Range(COMPUTED_COLUMNS) |->
                                        IF c = "instructions-per-cycle"
                                        THEN FloatDiv(v["cpu-cycles"], v["instructions"])
                                        ELSE IF c = "cycles-per-instruction"
                                        THEN FloatDiv(v["instructions"], v["cpu-cycles"])
                                        ELSE v[c]]]]]
    ELSE table

\* The computed columns, added when the file is a perf file and both raw
\* columns are (still) columns of the frame.
AddComputedColumns(table, is_perf_file) ==
    IF /\ is_perf_file
       /\ "cpu-cycles" \in Range(table.columns)
       /\ "instructions" \in Range(table.columns)
    THEN [columns |-> table.columns \o COMPUTED_COLUMNS,
          rows |-> [i \in DOMAIN table.rows |->
                      LET v == table.rows[i].vals
                      IN [table.rows[i] EXCEPT
                            !.vals = [c \in Range(table.columns) \cup Range(COMPUTED_COLUMNS) |->
                                        IF c = "instructions-per-cycle"
                                        THEN FloatDiv(v["instructions"], v["cpu-cycles"])
                                        ELSE IF c = "cycles-per-instruction"
                                        THEN FloatDiv(v["cpu-cycles"], v["instructions"])
                                        ELSE v[c]]]]]
    ELSE table

\* df.drop(df[~df["deployment-mechanism"].isin(deployment_mechanisms)].index)
KeepRequestedMechanisms(rows, deployment_mechanisms) ==
    SelectSeq(rows, LAMBDA r : r.mech \in Range(deployment_mechanisms))

parse_csv_rows(table, deployment_mechanisms, metrics, docker_overhead_view, is_perf_file) ==
    LET dropped == DropUnrequestedColumns(table, metrics)
        viewed == [dropped EXCEPT
                     !.rows = ApplyDockerOverheadView(dropped.rows, docker_overhead_view)]
        computed == AddComputedColumns(viewed, is_perf_file)
    IN [computed EXCEPT
          !.rows = KeepRequestedMechanisms(computed.rows, deployment_mechanisms)]

\* ------------------------------- welch_t_test_with_confidence_interval
\* Float arithmetic on cells; nan propagates, x / 0 is inf (nan for 0 / 0).
IsNumber(c) == c.k \in {"int", "float"}
\* A cell's value in hundredths.
Hundredths(c) == IF c.k = "int" THEN c.v * Scale ELSE c.v
FSub(a, b) ==
    IF IsNumber(a) /\ IsNumber(b) THEN FloatCell(Hundredths(a) - Hundredths(b)) ELSE NaN
FAdd(a, b) ==
    IF IsNumber(a) /\ IsNumber(b) THEN FloatCell(Hundredths(a) + Hundredths(b)) ELSE NaN
FAbs(a) == IF IsNumber(a) THEN FloatCell(IF a.v < 0 THEN -a.v ELSE a.v) ELSE a
FDiv(a, b) ==
    IF ~(IsNumber(a) /\ IsNumber(b)) THEN NaN
    ELSE IF Hundredths(b) = 0 THEN (IF Hundredths(a) = 0 THEN NaN ELSE Inf)
    ELSE LET q == ((IF a.v < 0 THEN -Hundredths(a) ELSE Hundredths(a)) * Scale)
                     \div (IF b.v < 0 THEN -Hundredths(b) ELSE Hundredths(b))
         IN FloatCell(IF (a.v < 0) = (b.v < 0) THEN q ELSE -q)
\* a <= b and a < b on floats: every comparison with nan is False.
FLeq(a, b) == IsNumber(a) /\ IsNumber(b) /\ Hundredths(a) <= Hundredths(b)
FLess(a, b) == IsNumber(a) /\ IsNumber(b) /\ Hundredths(a) < Hundredths(b)

RECURSIVE ISqrtBetween(_, _, _)
\* The integer square root of n, by bisection over lo..hi.
ISqrtBetween(n, lo, hi) ==
    IF lo >= hi THEN lo
    ELSE Force((lo + hi + 1) \div 2,
               LAMBDA mid : IF mid * mid <= n THEN ISqrtBetween(n, mid, hi)
                            ELSE ISqrtBetween(n, lo, mid - 1))
ISqrt(n) == Force(n, LAMBDA m : ISqrtBetween(m, 0, IF m < 46340 THEN m ELSE 46340))

RECURSIVE SumTo(_, _)
SumTo(s, n) == IF n = 0 THEN 0 ELSE s[n] + SumTo(s, n - 1)
SumOf(s) == Force(s, LAMBDA q : SumTo(q, Len(q)))

\* The numbers of a sample (a column of one kind) and the unit they are in.
SampleValues(arr) == [i \in DOMAIN arr |-> arr[i].v]
SampleUnit(arr) == IF \A i \in DOMAIN arr : arr[i].k = "int" THEN Scale ELSE 1
SampleFinite(arr) == arr # <<>> /\ \A i \in DOMAIN arr : IsNumber(arr[i])

\* DescrStatsW.mean
SampleMean(arr) ==
    IF ~SampleFinite(arr) THEN NaN
    ELSE FloatCell((SumOf(SampleValues(arr)) * SampleUnit(arr)) \div Len(arr))

\* The squared standard error of the mean, _var / (nobs - 1), in hundredths
\* squared; nan for fewer than two observations (0 / 0).
SquaredStdMean(arr) ==
    LET n == Len(arr)
        sum == SumOf(SampleValues(arr))
        a == n * SumOf([i \in DOMAIN arr |-> arr[i].v * arr[i].v]) - sum * sum
    IN IF ~SampleFinite(arr) \/ n < 2 THEN NaN
       ELSE FloatCell((a * SampleUnit(arr) * SampleUnit(arr)) \div (n * n * (n - 1)))

\* scipy.stats.t.ppf(1 - alpha / 2, dof) in hundredths for whole dof, alpha
\* in percent.
TQuantile(alpha, dof) ==
    IF alpha = 5
    THEN CASE dof = 1 -> 1271 [] dof = 2 -> 430 [] dof = 3 -> 318 [] dof = 4 -> 278
           [] dof = 5 -> 257 [] dof = 6 -> 245 [] dof = 7 -> 236 [] dof = 8 -> 231
           [] OTHER -> 226
    ELSE CASE dof = 1 -> 631 [] dof = 2 -> 292 [] dof = 3 -> 235 [] dof = 4 -> 213
           [] dof = 5 -> 202 [] dof = 6 -> 194 [] dof = 7 -> 189 [] dof = 8 -> 186
           [] OTHER -> 183
\* The same for a dof in thousandths, interpolated between whole dofs.
TQuantileAt(alpha, dof1000) ==
    LET f == dof1000 \div 1000
        lo == TQuantile(alpha, f)
        hi == TQuantile(alpha, f + 1)
    IN lo - ((lo - hi) * (dof1000 % 1000)) \div 1000

\* DescrStatsW.tconfint_mean(alpha): mean -/+ t(nobs - 1) * std_mean.
TConfintMean(arr, alpha) ==
    Force(<<SquaredStdMean(arr), SampleMean(arr)>>,
          LAMBDA b :
              IF b[1] = NaN THEN <<NaN, NaN>>
              ELSE Force(FloatCell((TQuantile(alpha, Len(arr) - 1) * ISqrt(b[1].v))
                                       \div Scale),
                         LAMBDA half : <<FSub(b[2], half), FAdd(b[2], half)>>))

\* CompareMeans.dof_satt() in thousandths; nan when a sample has fewer than
\* two observations or both variances are zero (0 / 0).
DofSatt(arr_x, arr_y) ==
    Force(<<SquaredStdMean(arr_x), SquaredStdMean(arr_y)>>,
          LAMBDA sem :
              LET semsum == sem[1].v + sem[2].v
                  share(q) == IF semsum < 2000000 THEN (q * 1000) \div semsum
                              ELSE q \div (semsum \div 1000)
                  z1 == (share(sem[1].v) * share(sem[1].v)) \div (Len(arr_x) - 1)
                  z2 == (share(sem[2].v) * share(sem[2].v)) \div (Len(arr_y) - 1)
              IN IF sem[1] = NaN \/ sem[2] = NaN THEN NaN
                 ELSE IF semsum = 0 THEN NaN
                 ELSE FloatCell(1000000000 \div (z1 + z2)))

\* CompareMeans.tconfint_diff(usevar="unequal", alpha): the interval of
\* mean(x) - mean(y).
TConfintDiff(arr_x, arr_y, alpha) ==
    Force(<<DofSatt(arr_x, arr_y), FSub(SampleMean(arr_x), SampleMean(arr_y))>>,
          LAMBDA b :
              IF b[1] = NaN THEN <<NaN, NaN>>
              ELSE Force(FloatCell((TQuantileAt(alpha, b[1].v)
                                      * ISqrt(SquaredStdMean(arr_x).v
                                                + SquaredStdMean(arr_y).v))
                                       \div Scale),
                         LAMBDA half : <<FSub(b[2], half), FAdd(b[2], half)>>))

Zero == FloatCell(0)

\* not (ci_lower <= 0 <= ci_upper)
Significant(ci_lower, ci_upper) ==
    ~(FLeq(ci_lower, Zero) /\ FLeq(Zero, ci_upper))

welch_t_test_with_confidence_interval(arr_x, arr_y, alpha) ==
    Force([ci |-> TConfintDiff(arr_x, arr_y, alpha),
           x_mean |-> SampleMean(arr_x),
           y_mean |-> SampleMean(arr_y)],
          LAMBDA b :
              [x_mean |-> b.x_mean,
               y_mean |-> b.y_mean,
               mean_diff |-> Force(FSub(b.y_mean, b.x_mean), FAbs),
               ci_lower |-> b.ci[1],
               ci_upper |-> b.ci[2],
               ci_half_width |-> Force(FSub(b.ci[2], b.ci[1]),
                                       LAMBDA width : FDiv(width, IntCell(2))),
               statistically_significant |-> Significant(b.ci[1], b.ci[2]),
               x_ci |-> TConfintMean(arr_x, alpha),
               y_ci |-> TConfintMean(arr_y, alpha)])

\* --------------------------------------------------- initialize_aggregate_df
\* The aggregate columns of a metric: f"{metric}-mean", f"{metric}-error-lower"
\* and f"{metric}-error-upper", as (metric, suffix) pairs.
AggregateSuffixes == <<"mean", "error-lower", "error-upper">>
RECURSIVE AggregateColumns(_)
AggregateColumns(metrics) ==
    IF metrics = <<>> THEN <<>>
    ELSE [i \in 1..3 |-> <<Head(metrics), AggregateSuffixes[i]>>]
            \o AggregateColumns(Tail(metrics))

initialize_aggregate_df(metric_cols, deployment_mechanisms, model, input) ==
    [columns |-> AggregateColumns(metric_cols),
     rows |-> [i \in DOMAIN deployment_mechanisms |->
                 [model |-> model, input |-> input,
                  mech |-> deployment_mechanisms[i],
                  cells |-> [c \in Range(AggregateColumns(metric_cols)) |-> None]]]]

\* --------------------------------------- analyze_data_significant_difference
\* The mutant of Unique: the column itself, repeats kept.
UniqueKeepingRepeats(s) == s

RECURSIVE Unique(_)
\* Series.unique(): the distinct values in order of first appearance.
Unique(s) ==
    IF s = <<>> THEN <<>>
    ELSE Force(Unique(SubSeq(s, 1, Len(s) - 1)),
               LAMBDA init : IF s[Len(s)] \in Range(init) THEN init
                             ELSE Append(init, s[Len(s)]))

\* The mutant of Combinations2: itertools.permutations(s, 2), every ordered
\* pair of two positions.
Permutations2(s) ==
    LET n == Len(s)
    IN [k \in 1..(n * (n - 1)) |->
          LET i == ((k - 1) \div (n - 1)) + 1
              o == ((k - 1) % (n - 1)) + 1
          IN <<s[i], s[IF o < i THEN o ELSE o + 1]>>]

RECURSIVE Combinations2(_)
\* itertools.combinations(s, 2): (s[i], s[j]) for i < j, in lexicographic
\* order of (i, j).
Combinations2(s) ==
    IF Len(s) < 2 THEN <<>>
    ELSE [j \in 1..(Len(s) - 1) |-> <<s[1], s[j + 1]>>] \o Combinations2(Tail(s))

\* grouped_df.get_group(mechanism)[metric]
GetGroup(df, mechanism, metric) ==
    LET rows == SelectSeq(df.rows, LAMBDA r : r.mech = mechanism)
    IN [i \in DOMAIN rows |-> rows[i].vals[metric]]

\* print_if_true(message, condition)
print_if_true(console, message, condition) ==
    IF condition THEN Append(console, message) ELSE console

\* A printed line: what it says, the comparison it is about, its numbers.
Line(text, x, y, metric, body) ==
    [text |-> text, x |-> x, y |-> y, metric |-> metric, body |-> body]

\* The mutant of SetAggregate: the assignment without the row mask, writing
\* the values to the row of every mechanism.
SetAggregateAllRows(aggregate_df, mechanism, metric, values) ==
    [aggregate_df EXCEPT
       !.rows = [i \in DOMAIN aggregate_df.rows |->
                   [aggregate_df.rows[i] EXCEPT
                      !.cells = [c \in DOMAIN aggregate_df.rows[i].cells |->
                                   IF c[1] # metric
                                   THEN aggregate_df.rows[i].cells[c]
                                   ELSE IF c[2] = "mean" THEN values[1]
                                   ELSE IF c[2] = "error-lower" THEN values[2]
                                   ELSE values[3]]]]]

\* aggregate_df.loc[aggregate_df["deployment-mechanism"] == mechanism,
\*                  [mean, error-lower, error-upper columns of metric]] = values
SetAggregate(aggregate_df, mechanism, metric, values) ==
    [aggregate_df EXCEPT
       !.rows = [i \in DOMAIN aggregate_df.rows |->
                   IF aggregate_df.rows[i].mech = mechanism
                   THEN [aggregate_df.rows[i] EXCEPT
                           !.cells = [c \in DOMAIN aggregate_df.rows[i].cells |->
                                        IF c[1] # metric
                                        THEN aggregate_df.rows[i].cells[c]
                                        ELSE IF c[2] = "mean" THEN values[1]
                                        ELSE IF c[2] = "error-lower" THEN values[2]
                                        ELSE values[3]]]
                   ELSE aggregate_df.rows[i]]]

\* The two aggregate assignments of the loop body: x's row, then y's row.
UpdateAggregate(aggregate_df, w, x, y, metric) ==
    Force(<<SetAggregate(aggregate_df, x, metric,
                <<w.x_mean, FSub(w.x_mean, w.x_ci[1]), FSub(w.x_ci[2], w.x_mean)>>),
            <<w.y_mean, FSub(w.y_mean, w.y_ci[1]), FSub(w.y_ci[2], w.y_mean)>> >>,
          LAMBDA b : SetAggregate(b[1], y, metric, b[2]))

\* ratio_min and ratio_max: the ratio of the larger mean to the smaller, less
\* and plus the half width over the smaller mean.
EffectSize(w) ==
    LET x_smaller == FLess(w.x_mean, w.y_mean)
        ratio == IF x_smaller THEN FDiv(w.y_mean, w.x_mean) ELSE FDiv(w.x_mean, w.y_mean)
        ratio_ci == IF x_smaller THEN FDiv(w.ci_half_width, w.x_mean)
                    ELSE FDiv(w.ci_half_width, w.y_mean)
    IN Force(<<ratio, ratio_ci>>, LAMBDA b : <<FSub(b[1], b[2]), FAdd(b[1], b[2])>>)

\* "{first} is {ratio_min} to {ratio_max} times larger than {second}"
RatioMessage(w, x, y, metric) ==
    IF FLess(w.x_mean, w.y_mean)
    THEN Line("times larger than", x, y, metric, EffectSize(w))
    ELSE Line("times larger than", y, x, metric, EffectSize(w))

\* The row the loop body adds to the pair's comparison frame.
ComparisonRow(w, metric) ==
    [metric |-> metric, x_value |-> w.x_ci, y_value |-> w.y_ci,
     statistically_significant |-> w.statistically_significant,
     effect_size |-> EffectSize(w)]

\* The lines the loop body prints: the notice of the outcome, then, unless the
\* comparison is insignificant and insignificant output is not included, the
\* mean difference, the two averages, the ratio and an empty line.
Report(console, w, x, y, metric, a) ==
    LET noticed ==
            IF w.statistically_significant
            THEN print_if_true(console,
                     Line("Statistically significant difference", x, y, metric, <<>>),
                     a.view_output)
            ELSE print_if_true(console,
                     Line("No statistically significant difference", x, y, metric, <<>>),
                     a.view_output)
        d1 == print_if_true(noticed,
                  Line("Mean difference", x, y, metric, <<w.mean_diff, w.ci_half_width>>),
                  a.view_output)
        d2 == print_if_true(d1,
                  Line("average", x, x, metric, <<w.x_mean, w.x_ci[1], w.x_ci[2]>>),
                  a.view_output)
        d3 == print_if_true(d2,
                  Line("average", y, y, metric, <<w.y_mean, w.y_ci[1], w.y_ci[2]>>),
                  a.view_output)
        d4 == print_if_true(d3, RatioMessage(w, x, y, metric), a.view_output)
        d5 == print_if_true(d4, Line("", x, y, metric, <<>>), a.view_output)
    IN IF ~w.statistically_significant /\ ~a.include_insignificant_output
       THEN noticed
       ELSE d5

\* The mutant of RecordComparison: the "continue" of an insignificant
\* comparison taken before the aggregate assignments.
RecordComparisonSkippingAggregate(st, w, x, y, metric, a) ==
    [aggregate_df |-> IF ~w.statistically_significant /\ ~a.include_insignificant_output
                      THEN st.aggregate_df
                      ELSE UpdateAggregate(st.aggregate_df, w, x, y, metric),
     comparison_df |-> Append(st.comparison_df, ComparisonRow(w, metric)),
     console |-> Report(st.console, w, x, y, metric, a),
     comparator_calls |-> Append(st.comparator_calls, <<x, y, metric>>)]

\* The body of the metric loop after the comparator has returned w. st holds
\* the aggregate frame, the pair's comparison frame, the console and the trace
\* of comparator calls.
RecordComparison(st, w, x, y, metric, a) ==
    [aggregate_df |-> UpdateAggregate(st.aggregate_df, w, x, y, metric),
     comparison_df |-> Append(st.comparison_df, ComparisonRow(w, metric)),
     console |-> Report(st.console, w, x, y, metric, a),
     comparator_calls |-> Append(st.comparator_calls, <<x, y, metric>>)]

\* The body of the metric loop for one pair and one metric: the two groups'
\* values of the metric go to the comparator.
AnalyzeMetric(st, df, x, y, metric, a) ==
    Force(<<GetGroup(df, x, metric), GetGroup(df, y, metric)>>,
          LAMBDA arr :
              Force(welch_t_test_with_confidence_interval(arr[1], arr[2],
                                                          a.significance_level),
                    LAMBDA w : RecordComparison(st, w, x, y, metric, a)))

RECURSIVE AnalyzeMetrics(_, _, _, _, _, _)
\* for metric in metrics
AnalyzeMetrics(st, df, x, y, metrics, a) ==
    IF metrics = <<>> THEN st
    ELSE Force(<<AnalyzeMetric(st, df, x, y, Head(metrics), a), Tail(metrics)>>,
               LAMBDA b : AnalyzeMetrics(b[1], df, x, y, b[2], a))

RECURSIVE AnalyzePairs(_, _, _, _, _)
\* for deployment_mechanism_x, deployment_mechanism_y in combinations(...)
AnalyzePairs(out, df, pairs, metrics, a) ==
    IF pairs = <<>> THEN out
    ELSE LET x == Head(pairs)[1]
             y == Head(pairs)[2]
             after(st) == [aggregate_df |-> st.aggregate_df,
                           comparison_files |->
                               IF a.save_output
                               THEN Append(out.comparison_files,
                                           [x |-> x, y |-> y, rows |-> st.comparison_df])
                               ELSE out.comparison_files,
                           console |-> st.console,
                           comparator_calls |-> st.comparator_calls]
         IN Force(<<AnalyzeMetrics([aggregate_df |-> out.aggregate_df,
                                    comparison_df |-> <<>>,
                                    console |-> out.console,
                                    comparator_calls |-> out.comparator_calls],
                                   df, x, y, metrics, a),
                    Tail(pairs)>>,
                  LAMBDA b : Force(after(b[1]),
                                   LAMBDA next : AnalyzePairs(next, df, b[2], metrics, a)))

\* The whole function: the returned aggregate frame, the comparison CSV files
\* written, the lines printed, and the comparator calls made, in order.
analyze_data_significant_difference(df, metrics, a) ==
    Force(Unique([i \in DOMAIN df.rows |-> df.rows[i].mech]),
          LAMBDA deployment_mechanisms :
              Force(<<[aggregate_df |->
                          initialize_aggregate_df(metrics, deployment_mechanisms,
                                                  a.model, a.input),
                       comparison_files |-> <<>>,
                       console |-> <<>>,
                       comparator_calls |-> <<>>],
                      Combinations2(deployment_mechanisms)>>,
                    LAMBDA b : AnalyzePairs(b[1], df, b[2], metrics, a)))

\* get_metrics_in_df: the columns of the frame that are not NON_METRIC_COLUMNS
\* (a row's idx, mech and trial fields are not among df.columns here).
get_metrics_in_df(df) ==
    SelectSeq(df.columns, LAMBDA c : c \notin Range(NON_METRIC_COLUMNS))

\* pd.merge(perf_df, time_df, on=["deployment-mechanism", "trial-number"]): the
\* inner join. For each row of the left frame in order, one row per row of the
\* right frame with the same mechanism and trial number, in the right frame's
\* order, holding the columns of both.
merge(left, right) ==
    LET matches(l) == SelectSeq(right.rows,
                                LAMBDA r : r.mech = l.mech /\ r.trial = l.trial)
        joined(l, r) == [mech |-> l.mech, trial |-> l.trial,
                         vals |-> [c \in Range(left.columns) \cup Range(right.columns) |->
                                     IF c \in Range(left.columns) THEN l.vals[c]
                                     ELSE r.vals[c]]]
        RECURSIVE rows_from(_)
        rows_from(i) ==
            IF i > Len(left.rows) THEN <<>>
            ELSE Force(matches(left.rows[i]),
                       LAMBDA ms : [j \in DOMAIN ms |-> joined(left.rows[i], ms[j])])
                    \o rows_from(i + 1)
    IN [columns |-> left.columns \o right.columns,
        rows |-> rows_from(1)]

\* ------------------------------------------- create_or_update_aggregate_csv
\* The text of an empty CSV cell.
EmptyText == [k |-> "empty", v |-> 0]
\* DataFrame.to_csv writes None and nan as an empty cell; pd.read_csv reads an
\* empty cell as nan.
ToCsvCell(c) == IF c \in {None, NaN} THEN EmptyText ELSE c
ReadCsvCell(t) == IF t = EmptyText THEN NaN ELSE t

\* The aggregate CSV file: whether it exists, its header, its rows of text.
NoFile == [exists |-> FALSE, columns |-> <<>>, rows |-> <<>>]

\* frame.to_csv(path, index=False): the file is replaced by the frame's text.
to_csv(frame) ==
    [exists |-> TRUE,
     columns |-> frame.columns,
     rows |-> [i \in DOMAIN frame.rows |->
                 [frame.rows[i] EXCEPT
                    !.cells = [c \in DOMAIN frame.rows[i].cells |->
                                 ToCsvCell(frame.rows[i].cells[c])]]]]

\* pd.read_csv(path)
read_csv(file) ==
    [columns |-> file.columns,
     rows |-> [i \in DOMAIN file.rows |->
                 [file.rows[i] EXCEPT
                    !.cells = [c \in DOMAIN file.rows[i].cells |->
                                 ReadCsvCell(file.rows[i].cells[c])]]]]

\* The mutant of concat: a new row replaces the existing row with its key
\* (model, input, deployment-mechanism) instead of being added.
ConcatReplacingKeys(existing, new) ==
    LET columns == existing.columns
                     \o SelectSeq(new.columns, LAMBDA c : c \notin Range(existing.columns))
        pad(r) == [r EXCEPT !.cells = [c \in Range(columns) |->
                                         IF c \in DOMAIN r.cells THEN r.cells[c] ELSE NaN]]
        key(r) == <<r.model, r.input, r.mech>>
        kept == SelectSeq(existing.rows,
                          LAMBDA r : \A i \in DOMAIN new.rows : key(new.rows[i]) # key(r))
    IN [columns |-> columns,
        rows |-> [i \in DOMAIN kept |-> pad(kept[i])]
                    \o [i \in DOMAIN new.rows |-> pad(new.rows[i])]]

\* pd.concat([existing, new], ignore_index=True): the columns of both in order
\* of appearance, the rows of existing then those of new, nan where a row has
\* no such column.
concat(existing, new) ==
    LET columns == existing.columns
                     \o SelectSeq(new.columns, LAMBDA c : c \notin Range(existing.columns))
        pad(r) == [r EXCEPT !.cells = [c \in Range(columns) |->
                                         IF c \in DOMAIN r.cells THEN r.cells[c] ELSE NaN]]
    IN [columns |-> columns,
        rows |-> [i \in DOMAIN existing.rows |-> pad(existing.rows[i])]
                    \o [i \in DOMAIN new.rows |-> pad(new.rows[i])]]

\* ------------------------------------------------- analyze_aggregate_data.py
\* The metric columns main() asks for: mean, error-lower and error-upper of
\* each metric, as <<metric, suffix>>.
metric_cols_suffixes == <<"mean", "error-lower", "error-upper">>
RECURSIVE MetricCols(_)
MetricCols(metrics) ==
    IF metrics = <<>> THEN <<>>
    ELSE [i \in 1..3 |-> <<Head(metrics), metric_cols_suffixes[i]>>]
            \o MetricCols(Tail(metrics))

\* remove_irrelevant_df_columns(df, metric_cols): the metric columns asked for
\* that the frame holds (model, input and mechanism are fields of a row).
remove_irrelevant_df_columns(frame, metric_cols) ==
    LET cols_to_keep == SelectSeq(metric_cols, LAMBDA c : c \in Range(frame.columns))
    IN [columns |-> cols_to_keep,
        rows |-> [i \in DOMAIN frame.rows |->
                    [frame.rows[i] EXCEPT
                       !.cells = [c \in Range(cols_to_keep) |-> frame.rows[i].cells[c]]]]]

\* The value of a row in the column "model" or "input".
Field(row, column) == IF column = "model" THEN row.model ELSE row.input

\* plt.errorbar(variable_values, means, yerr=errors, label=mechanism): the line
\* drawn, point i pairing variable_values[i] with means[i] and its errors;
\* matplotlib raises ValueError when the lengths differ.
errorbar(variable_values, means, errors, label) ==
    IF Len(means) # Len(variable_values)
    THEN [raised |-> TRUE, label |-> label, points |-> <<>>]
    ELSE [raised |-> FALSE, label |-> label,
          points |-> [i \in DOMAIN variable_values |->
                        [x |-> variable_values[i], mean |-> means[i],
                         error_lower |-> errors[1][i], error_upper |-> errors[2][i]]]]

\* The body of the mechanism loop: the mechanism's rows in the order of the
\* frame, their means and errors as lists, drawn against variable_values.
MechanismLine(frame, metric, variable, variable_values, mechanism) ==
    LET rows == SelectSeq(frame.rows, LAMBDA r : r.mech = mechanism)
    IN errorbar(variable_values,
                [i \in DOMAIN rows |-> rows[i].cells[<<metric, "mean">>]],
                <<[i \in DOMAIN rows |-> rows[i].cells[<<metric, "error-lower">>]],
                  [i \in DOMAIN rows |-> rows[i].cells[<<metric, "error-upper">>]]>>,
                mechanism)

RECURSIVE DrawLines(_, _, _, _, _, _)
\* for deployment_mechanism in deployment_mechanisms: the lines drawn on the
\* figure, up to and including the first that raises.
DrawLines(lines, frame, metric, variable, variable_values, mechanisms) ==
    IF mechanisms = <<>> THEN lines
    ELSE Force(MechanismLine(frame, metric, variable, variable_values, Head(mechanisms)),
               LAMBDA line :
                   IF line.raised THEN Append(lines, line)
                   ELSE DrawLines(Append(lines, line), frame, metric, variable,
                                  variable_values, Tail(mechanisms)))

RECURSIVE ChartMetrics(_, _, _, _, _, _, _, _)
\* for metric in metrics: one figure per metric the frame holds; a figure is
\* saved and shown once all its lines are drawn. The result: the figures and
\* whether an errorbar call raised.
ChartMetrics(out, frame, metrics, across_models, variable_values, constant_value, view_output, save_output) ==
    IF metrics = <<>> THEN out
    ELSE IF <<Head(metrics), "mean">> \notin Range(frame.columns)
    THEN ChartMetrics(out, frame, Tail(metrics), across_models, variable_values,
                      constant_value, view_output, save_output)
    ELSE Force(DrawLines(<<>>, frame, Head(metrics),
                         IF across_models THEN "model" ELSE "input", variable_values,
                         Unique([i \in DOMAIN frame.rows |-> frame.rows[i].mech])),
               LAMBDA lines :
                   LET failed == \E i \in DOMAIN lines : lines[i].raised
                       figure == [metric |-> Head(metrics),
                                  across_models |-> across_models,
                                  constant_value |-> constant_value,
                                  variable_values |-> variable_values,
                                  lines |-> lines,
                                  saved |-> save_output /\ ~failed,
                                  shown |-> view_output /\ ~failed]
                   IN IF failed
                      THEN [figures |-> Append(out.figures, figure), raised |-> TRUE]
                      ELSE ChartMetrics([figures |-> Append(out.figures, figure),
                                         raised |-> FALSE],
                                        frame, Tail(metrics), across_models,
                                        variable_values, constant_value,
                                        view_output, save_output))

chart_compare_across_models_or_inputs(frame, metrics, across_models, variable_values, constant_value, view_output, save_output) ==
    ChartMetrics([figures |-> <<>>, raised |-> FALSE], frame, metrics, across_models,
                 variable_values, constant_value, view_output, save_output)

\* compare_across_models_or_inputs: the rows whose variable is among
\* variable_values and whose constant is constant_value, in the frame's order,
\* go to the chart function.
compare_across_models_or_inputs(frame, across_models, variable_values, constant_value, metrics, view_output, save_output) ==
    LET variable == IF across_models THEN "model" ELSE "input"
        constant == IF across_models THEN "input" ELSE "model"
        filtered == [frame EXCEPT
                       !.rows = SelectSeq(frame.rows,
                                    LAMBDA r : /\ Field(r, variable) \in Range(variable_values)
                                               /\ Field(r, constant) = constant_value)]
    IN chart_compare_across_models_or_inputs(filtered, metrics, across_models,
                                             variable_values, constant_value,
                                             view_output, save_output)

compare_across_models(frame, models_to_compare, input, metrics, view_output, save_output) ==
    compare_across_models_or_inputs(frame, TRUE, models_to_compare, input, metrics,
                                    view_output, save_output)

compare_across_inputs(frame, inputs_to_compare, model, metrics, view_output, save_output) ==
    compare_across_models_or_inputs(frame, FALSE, inputs_to_compare, model, metrics,
                                    view_output, save_output)

\* ====================================================================== state
VARIABLES
    \* parse_csv_rows: the results file, the arguments, the returned frame
    results_file, parse_args, parsed_df, parse_pc,
    \* main(): the merged frame, the arguments, what the analysis returned,
    \* wrote and printed
    df, args, analysis, main_pc,
    \* main(): the frames parsed from the perf and the time results files
    perf_df, time_df,
    \* the aggregate CSV file and, per run, the call of
    \* create_or_update_aggregate_csv: its position, its aggregate_df argument
    \* and its existing_aggregate_df
    store, store_pc, new_records, existing_df,
    \* history: the file before the first call, the frames written in the order
    \* of their writes, each with the number of writes that preceded the
    \* moment its call looked at the file; and that number per running call
    first_store, log, observed,
    \* analyze_aggregate_data.py main(): the aggregate CSV it reads, its
    \* command line, the frame after remove_irrelevant_df_columns, the figures
    \* drawn, the messages printed, how the run ended, and its position
    aggregate_csv, cli, aggregate_frame, figures, messages, exit_status, chart_pc

parse_vars == <<results_file, parse_args, parsed_df, parse_pc>>
main_vars == <<df, args, analysis, main_pc, perf_df, time_df>>
store_vars == <<store, store_pc, new_records, existing_df, first_store, log, observed>>
chart_vars == <<aggregate_csv, cli, aggregate_frame, figures, messages, exit_status, chart_pc>>
vars == <<results_file, parse_args, parsed_df, parse_pc,
          df, args, analysis, main_pc, perf_df, time_df,
          store, store_pc, new_records, existing_df, first_store, log, observed,
          aggregate_csv, cli, aggregate_frame, figures, messages, exit_status, chart_pc>>

\* The runs that may share one aggregate store.
Runs == {"run1", "run2"}

EmptyFrame == [columns |-> <<>>, rows |-> <<>>]
NotParsed == EmptyFrame
NoArgs == [significance_level |-> 5, model |-> "", input |-> "",
           include_insignificant_output |-> FALSE,
           view_output |-> FALSE, save_output |-> FALSE]
NoAnalysis == [aggregate_df |-> EmptyFrame, comparison_files |-> <<>>,
               console |-> <<>>, comparator_calls |-> <<>>]

\* The parts of the state a specification does not use.
ParseUnused ==
    /\ results_file = EmptyFrame
    /\ parse_args = [deployment_mechanisms |-> <<>>, metrics |-> <<>>,
                     docker_overhead_view |-> DOCKER_OVERHEAD_INCLUDE_ADDITIONAL_DAEMON,
                     is_perf_file |-> TRUE]
    /\ parsed_df = NotParsed
    /\ parse_pc = "unused"
TablesUnused ==
    /\ perf_df = EmptyFrame
    /\ time_df = EmptyFrame
MainUnused ==
    /\ TablesUnused
    /\ df = EmptyFrame
    /\ args = NoArgs
    /\ analysis = NoAnalysis
    /\ main_pc = "unused"
\* A command-line argument that was not given, and one given with a value.
NotGiven(empty) == [given |-> FALSE, value |-> empty]
Given(value) == [given |-> TRUE, value |-> value]
NoCli == [compare_across_models |-> FALSE, models_to_compare |-> NotGiven(<<>>),
          input |-> NotGiven(""), compare_across_inputs |-> FALSE,
          inputs_to_compare |-> NotGiven(<<>>), model |-> NotGiven(""),
          metrics |-> <<>>, view_output |-> FALSE, save_output |-> FALSE]
ChartUnused ==
    /\ aggregate_csv = EmptyFrame
    /\ cli = NoCli
    /\ aggregate_frame = EmptyFrame
    /\ figures = <<>>
    /\ messages = <<>>
    /\ exit_status = "unused"
    /\ chart_pc = "unused"
StoreIdle ==
    /\ store_pc = [r \in Runs |-> "idle"]
    /\ new_records = [r \in Runs |-> EmptyFrame]
    /\ existing_df = [r \in Runs |-> EmptyFrame]
    /\ first_store = store
    /\ log = <<>>
    /\ observed = [r \in Runs |-> 0]

\* ------------------------------------------------------- the parse machine
\* The metric columns of a perf results file and the measurements of a row.
PerfColumns == <<"cpu-cycles", "instructions">>
RawValueRows ==
    {[c \in Range(PerfColumns) |->
        IF c = "cpu-cycles" THEN IntCell(1000) ELSE IntCell(500)],
     [c \in Range(PerfColumns) |->
        IF c = "cpu-cycles" THEN IntCell(400) ELSE IntCell(800)]}

\* The trial number of row i: its rank among the rows of its mechanism.
TrialNumber(kinds, i) ==
    Cardinality({j \in 1..i : kinds[j].mech = kinds[i].mech})

\* pd.read_csv of a results file whose rows are the given (mechanism,
\* measurements) pairs: the frame gets the RangeIndex 1..n.
ReadResults(kinds) ==
    [columns |-> PerfColumns,
     rows |-> [i \in DOMAIN kinds |->
                 [idx |-> i, mech |-> kinds[i].mech,
                  trial |-> TrialNumber(kinds, i), vals |-> kinds[i].vals]]]

\* The columns a results file may hold: both perf columns, or instructions
\* alone.
RawColumnSets == {PerfColumns, <<"instructions">>}

\* The file with the given columns only.
WithColumns(file, columns) ==
    [columns |-> columns,
     rows |-> [i \in DOMAIN file.rows |->
                 [file.rows[i] EXCEPT
                    !.vals = [c \in Range(columns) |-> file.rows[i].vals[c]]]]]

RawFiles ==
    {WithColumns(ReadResults(kinds), columns) :
        kinds \in SeqsUpTo([mech : RawMechanisms, vals : RawValueRows], MaxRawRows),
        columns \in RawColumnSets}

DockerOverheadViews ==
    {DOCKER_OVERHEAD_EXCLUDE_DAEMON, DOCKER_OVERHEAD_INCLUDE_FULL_DAEMON,
     DOCKER_OVERHEAD_INCLUDE_ADDITIONAL_DAEMON}

\* --mechanisms and --metrics as main() passes them on (the metrics with
\* COMPUTED_COLUMNS appended).
RequestedMechanisms == {<<Docker, Native>>, <<Native>>}
RequestedMetrics ==
    {<<"cpu-cycles", "instructions">> \o COMPUTED_COLUMNS,
     <<"instructions">> \o COMPUTED_COLUMNS}

InitParse ==
    /\ ChartUnused
    /\ results_file \in RawFiles
    /\ parse_args \in [deployment_mechanisms : RequestedMechanisms,
                       metrics : RequestedMetrics,
                       docker_overhead_view : DockerOverheadViews,
                       is_perf_file : BOOLEAN]
    /\ parsed_df = NotParsed
    /\ parse_pc = "call"
    /\ MainUnused
    /\ store = NoFile
    /\ StoreIdle

\* One call of parse_csv_rows.
Parse ==
    /\ parse_pc = "call"
    /\ parsed_df' = parse_csv_rows(results_file, parse_args.deployment_mechanisms,
                                   parse_args.metrics, parse_args.docker_overhead_view,
                                   parse_args.is_perf_file)
    /\ parse_pc' = "returned"
    /\ UNCHANGED <<results_file, parse_args>>
    /\ UNCHANGED <<main_vars, store_vars, chart_vars>>

NextParse == Parse

SpecParse == InitParse /\ [][NextParse]_vars

\* ------------------------------------------------------ the store machine
\* The calls of create_or_update_aggregate_csv begun so far.
Running(r) == store_pc[r] \notin {"idle", "returned"}
CallsBegun == Len(log) + Cardinality({r \in Runs : Running(r)})

\* create_or_update_aggregate_csv(aggregate_df, path) is entered by run r.
EnterStoreUpdate(r, aggregate_df) ==
    /\ ~Running(r)
    /\ new_records' = [new_records EXCEPT ![r] = aggregate_df]
    /\ store_pc' = [store_pc EXCEPT ![r] = "exists"]
    /\ UNCHANGED <<store, existing_df, first_store, log, observed>>

\* if not os.path.exists(aggregate_csv_path)
ExistsCheck(r) ==
    /\ store_pc[r] = "exists"
    /\ store_pc' = [store_pc EXCEPT ![r] = IF store.exists THEN "read" ELSE "create"]
    /\ observed' = [observed EXCEPT ![r] = Len(log)]
    /\ UNCHANGED <<store, new_records, existing_df, first_store, log>>

\* aggregate_df.to_csv(aggregate_csv_path, index=False)
CreateStore(r) ==
    /\ store_pc[r] = "create"
    /\ store' = to_csv(new_records[r])
    /\ store_pc' = [store_pc EXCEPT ![r] = "returned"]
    /\ log' = Append(log, [records |-> new_records[r], observed |-> observed[r]])
    /\ UNCHANGED <<new_records, existing_df, first_store, observed>>

\* existing_aggregate_df = pd.read_csv(aggregate_csv_path)
ReadStore(r) ==
    /\ store_pc[r] = "read"
    /\ existing_df' = [existing_df EXCEPT ![r] = read_csv(store)]
    /\ store_pc' = [store_pc EXCEPT ![r] = "write"]
    /\ observed' = [observed EXCEPT ![r] = Len(log)]
    /\ UNCHANGED <<store, new_records, first_store, log>>

\* The mutant of WriteStore: the file is read again at the write, so that the
\* rows written since the call's read are kept.
WriteStoreRereading(r) ==
    /\ store_pc[r] = "write"
    /\ store' = to_csv(concat(read_csv(store), new_records[r]))
    /\ store_pc' = [store_pc EXCEPT ![r] = "returned"]
    /\ log' = Append(log, [records |-> new_records[r], observed |-> observed[r]])
    /\ UNCHANGED <<new_records, existing_df, first_store, observed>>

\* existing_aggregate_df = pd.concat([...]); existing_aggregate_df.to_csv(...)
WriteStore(r) ==
    /\ store_pc[r] = "write"
    /\ store' = to_csv(concat(existing_df[r], new_records[r]))
    /\ store_pc' = [store_pc EXCEPT ![r] = "returned"]
    /\ log' = Append(log, [records |-> new_records[r], observed |-> observed[r]])
    /\ UNCHANGED <<new_records, existing_df, first_store, observed>>

StoreStep(r) ==
    \/ ExistsCheck(r)
    \/ CreateStore(r)
    \/ ReadStore(r)
    \/ WriteStore(r)

\* ------------------------------------------------------- the main machine
\* The mechanisms of a merged frame (after canonicalization).
Mechanisms == {Docker, Native, WasmAot}

\* The metric columns of a merged frame and the measurements of a row: its
\* time and its cpu-cycles.
FrameColumns == {<<"time">>, <<"time", "cpu-cycles">>}
Measurements == <<(<<10, 100>>), (<<11, 10>>), (<<100, 11>>)>>
ValueRow(columns, m) == [c \in Range(columns) |-> IntCell(IF c = "time" THEN m[1] ELSE m[2])]

\* The measurement series of k rows: cycling through the three measurements,
\* alternating the first two, two low then high, all equal, and descending.
MeasurementSeries(k) ==
    {[i \in 1..k |-> Measurements[((i - 1) % 3) + 1]],
     [i \in 1..k |-> Measurements[((i - 1) % 2) + 1]],
     [i \in 1..k |-> Measurements[IF i < 3 THEN i ELSE 3]],
     [i \in 1..k |-> Measurements[1]],
     [i \in 1..k |-> Measurements[IF i < 3 THEN 4 - i ELSE 1]]}

\* The merged frames: every arrangement of up to MaxRows rows over the
\* mechanisms, with each measurement series.
DataFrames ==
    UNION {{[columns |-> columns,
             rows |-> [i \in 1..k |-> [mech |-> mechs[i],
                                       vals |-> ValueRow(columns, series[i])]]] :
               mechs \in [1..k -> Mechanisms], series \in MeasurementSeries(k)} :
           columns \in FrameColumns, k \in 0..MaxRows}

\* --significance-level in percent (0.05 is the default).
SignificanceLevels == {5}

Arguments ==
    [significance_level : SignificanceLevels, model : {"model"}, input : {"input"},
     include_insignificant_output : BOOLEAN, view_output : BOOLEAN, save_output : BOOLEAN]

\* An aggregate store left by an earlier experiment of the set (other model,
\* one metric).
EarlierFrame ==
    [columns |-> <<"time">>,
     rows |-> <<[mech |-> Docker, vals |-> ValueRow(<<"time">>, <<10, 0>>)],
                [mech |-> Docker, vals |-> ValueRow(<<"time">>, <<11, 0>>)],
                [mech |-> Native, vals |-> ValueRow(<<"time">>, <<100, 0>>)]>>]
EarlierStore ==
    to_csv(analyze_data_significant_difference(
               EarlierFrame, <<"time">>,
               [NoArgs EXCEPT !.model = "earlier", !.input = "input"]).aggregate_df)

Init ==
    /\ ChartUnused
    /\ ParseUnused
    /\ TablesUnused
    /\ df \in DataFrames
    /\ args = NoArgs
    /\ analysis = NoAnalysis
    /\ main_pc = "start"
    /\ store \in {NoFile, EarlierStore}
    /\ StoreIdle

\* metrics = get_metrics_in_df(df); aggregate_df =
\* analyze_data_significant_difference(df, ...) with the command line's
\* arguments.
Analyze ==
    /\ main_pc = "start"
    /\ \E a \in Arguments :
          /\ args' = a
          /\ analysis' = analyze_data_significant_difference(df, get_metrics_in_df(df), a)
    /\ main_pc' = "analyzed"
    /\ UNCHANGED <<df, perf_df, time_df, parse_vars, store_vars, chart_vars>>

\* create_or_update_aggregate_csv(aggregate_df, aggregate_csv_filepath)
CallStoreUpdate ==
    /\ main_pc = "analyzed"
    /\ EnterStoreUpdate("run1", analysis.aggregate_df)
    /\ main_pc' = "storing"
    /\ UNCHANGED <<df, args, analysis, perf_df, time_df, parse_vars, chart_vars>>

MainStoreStep ==
    /\ main_pc = "storing"
    /\ StoreStep("run1")
    /\ UNCHANGED <<main_vars, parse_vars, chart_vars>>

Next ==
    \/ Analyze
    \/ CallStoreUpdate
    \/ MainStoreStep

Spec == Init /\ [][Next]_vars

\* The run is over: the analysis returned and the store update returned.
MainDone == main_pc = "storing" /\ store_pc["run1"] = "returned"

\* ------------------------------------------------------ the merge in main()
\* The frames parse_csv_rows returns for a perf file and for a time file: rows
\* of the canonical mechanisms, the trial number of a row being its rank among
\* the rows of its mechanism.
TableMechanisms == {Docker, Native}
TableValues == {10, 11}
ParsedTable(column, kinds) ==
    [columns |-> <<column>>,
     rows |-> [i \in DOMAIN kinds |->
                 [idx |-> i, mech |-> kinds[i].mech,
                  trial |-> Cardinality({j \in 1..i : kinds[j].mech = kinds[i].mech}),
                  vals |-> [c \in {column} |-> IntCell(kinds[i].value)]]]]
ParsedTables(column) ==
    {ParsedTable(column, kinds) :
        kinds \in SeqsUpTo([mech : TableMechanisms, value : TableValues], MaxTableRows)}

InitMerge ==
    /\ ChartUnused
    /\ ParseUnused
    /\ perf_df \in ParsedTables("cpu-cycles")
    /\ time_df \in ParsedTables("time")
    /\ df = EmptyFrame
    /\ args = NoArgs
    /\ analysis = NoAnalysis
    /\ main_pc = "parsed"
    /\ store = NoFile
    /\ StoreIdle

\* df = pd.merge(perf_df, time_df, on=["deployment-mechanism", "trial-number"])
Merge ==
    /\ main_pc = "parsed"
    /\ df' = merge(perf_df, time_df)
    /\ main_pc' = "merged"
    /\ UNCHANGED <<perf_df, time_df, args, analysis, parse_vars, store_vars, chart_vars>>

NextMerge == Merge

SpecMerge == InitMerge /\ [][NextMerge]_vars

\* ------------------------------------------- runs sharing one aggregate store
\* The aggregate frames the runs of an experiment set hand to the store: those
\* of a few experiments.
RunFrames ==
    {[columns |-> <<"time">>,
      rows |-> <<[mech |-> Docker, vals |-> ValueRow(<<"time">>, <<10, 0>>)]>>],
     [columns |-> <<"time", "cpu-cycles">>,
      rows |-> <<[mech |-> Native, vals |-> ValueRow(<<"time", "cpu-cycles">>, <<10, 100>>)],
                 [mech |-> Native, vals |-> ValueRow(<<"time", "cpu-cycles">>, <<11, 10>>)],
                 [mech |-> Docker, vals |-> ValueRow(<<"time", "cpu-cycles">>, <<100, 11>>)]>>]}
RunAggregates ==
    {analyze_data_significant_difference(
         f, get_metrics_in_df(f), [NoArgs EXCEPT !.model = m, !.input = "input"]).aggregate_df :
     f \in RunFrames, m \in {"model", "other"}}

InitStore ==
    /\ ChartUnused
    /\ ParseUnused
    /\ MainUnused
    /\ store \in {NoFile, EarlierStore}
    /\ StoreIdle

\* A run reaches its call of create_or_update_aggregate_csv.
BeginCall(r) ==
    /\ CallsBegun < MaxCalls
    /\ \E f \in RunAggregates : EnterStoreUpdate(r, f)
    /\ UNCHANGED <<main_vars, parse_vars, chart_vars>>

\* The same when the runs are sequential: no other call is under way.
BeginCallAlone(r) ==
    /\ \A q \in Runs : ~Running(q)
    /\ BeginCall(r)

RunStoreStep(r) ==
    /\ StoreStep(r)
    /\ UNCHANGED <<main_vars, parse_vars, chart_vars>>

NextSequential == \E r \in Runs : BeginCallAlone(r) \/ RunStoreStep(r)
SpecSequential == InitStore /\ [][NextSequential]_vars

NextConcurrent == \E r \in Runs : BeginCall(r) \/ RunStoreStep(r)
SpecConcurrent == InitStore /\ [][NextConcurrent]_vars

\* ------------------------------------- the run of analyze_aggregate_data.py
\* The models, inputs and mechanisms of the rows of an aggregate CSV.
StoreModels == <<"m1", "m2">>
StoreInputs == <<"i1", "i2">>
StoreMechanisms == <<Docker, Native>>
PositionIn(s, v) == CHOOSE i \in DOMAIN s : s[i] = v

\* The row analyze_data.py appends for an experiment and a mechanism: its mean
\* of time tells the experiment and the mechanism.
StoreRow(model, input, mech) ==
    [model |-> model, input |-> input, mech |-> mech,
     cells |-> [c \in Range(MetricCols(<<"time">>)) |->
                  IF c[2] = "mean"
                  THEN FloatCell(Scale * (PositionIn(StoreModels, model) * 100
                                            + PositionIn(StoreInputs, input) * 10
                                            + PositionIn(StoreMechanisms, mech)))
                  ELSE FloatCell(Scale)]]

\* The aggregate CSVs as pd.read_csv returns them: up to MaxStoreRows rows in
\* any order, keys repeated or missing.
AggregateCsvs ==
    {[columns |-> MetricCols(<<"time">>),
      rows |-> [i \in DOMAIN keys |-> StoreRow(keys[i][1], keys[i][2], keys[i][3])]] :
        keys \in SeqsUpTo(Range(StoreModels) \X Range(StoreInputs) \X Range(StoreMechanisms),
                          MaxStoreRows)}

CommandLines ==
    [compare_across_models : BOOLEAN,
     models_to_compare : {NotGiven(<<>>), Given(StoreModels), Given(<<"m2", "m1">>)},
     input : {NotGiven(""), Given("i1")},
     compare_across_inputs : BOOLEAN,
     inputs_to_compare : {NotGiven(<<>>), Given(StoreInputs)},
     model : {NotGiven(""), Given("m1")},
     metrics : {<<"time">>},
     view_output : {FALSE},
     save_output : BOOLEAN]

InitChart ==
    /\ ParseUnused
    /\ MainUnused
    /\ store = NoFile
    /\ StoreIdle
    /\ aggregate_csv \in AggregateCsvs
    /\ cli \in CommandLines
    /\ aggregate_frame = EmptyFrame
    /\ figures = <<>>
    /\ messages = <<>>
    /\ exit_status = "running"
    /\ chart_pc = "start"

\* aggregate_df = pd.read_csv(...); metric_cols; remove_irrelevant_df_columns
LoadAggregate ==
    /\ chart_pc = "start"
    /\ aggregate_frame' = remove_irrelevant_df_columns(aggregate_csv, MetricCols(cli.metrics))
    /\ chart_pc' = "across_models"
    /\ UNCHANGED <<aggregate_csv, cli, figures, messages, exit_status>>
    /\ UNCHANGED <<parse_vars, main_vars, store_vars>>

\* print(message); exit(1)
ExitWithMessage(message) ==
    /\ messages' = Append(messages, message)
    /\ exit_status' = "exit 1"
    /\ chart_pc' = "ended"
    /\ UNCHANGED figures

\* The figures of a comparison are drawn; an errorbar call that raised ends
\* the run with the exception, otherwise the run goes on at next_pc.
Charted(result, next_pc) ==
    /\ figures' = figures \o result.figures
    /\ messages' = messages
    /\ IF result.raised
       THEN exit_status' = "ValueError" /\ chart_pc' = "ended"
       ELSE /\ exit_status' = (IF next_pc = "ended" THEN "exit 0" ELSE exit_status)
            /\ chart_pc' = next_pc

\* if args.compare_across_models: ...
CompareAcrossModels ==
    /\ chart_pc = "across_models"
    /\ IF ~cli.compare_across_models
       THEN chart_pc' = "across_inputs" /\ UNCHANGED <<figures, messages, exit_status>>
       ELSE IF ~cli.models_to_compare.given
       THEN ExitWithMessage("You must provide a list of models to compare.")
       ELSE IF ~cli.input.given
       THEN ExitWithMessage("You must provide a single input to use in comparing models.")
       ELSE Charted(compare_across_models(aggregate_frame, cli.models_to_compare.value,
                                          cli.input.value, cli.metrics,
                                          cli.view_output, cli.save_output),
                    "across_inputs")
    /\ UNCHANGED <<aggregate_csv, cli, aggregate_frame>>
    /\ UNCHANGED <<parse_vars, main_vars, store_vars>>

\* if args.compare_across_inputs: ...; then main() returns
CompareAcrossInputs ==
    /\ chart_pc = "across_inputs"
    /\ IF ~cli.compare_across_inputs
       THEN /\ chart_pc' = "ended"
            /\ exit_status' = "exit 0"
            /\ UNCHANGED <<figures, messages>>
       ELSE IF ~cli.inputs_to_compare.given
       THEN ExitWithMessage("You must provide a list of inputs to compare.")
       ELSE IF ~cli.model.given
       THEN ExitWithMessage("You must provide a single model to use in comparing inputs.")
       ELSE Charted(compare_across_inputs(aggregate_frame, cli.inputs_to_compare.value,
                                          cli.model.value, cli.metrics,
                                          cli.view_output, cli.save_output),
                    "ended")
    /\ UNCHANGED <<aggregate_csv, cli, aggregate_frame>>
    /\ UNCHANGED <<parse_vars, main_vars, store_vars>>

NextChart ==
    \/ LoadAggregate
    \/ CompareAcrossModels
    \/ CompareAcrossInputs

SpecChart == InitChart /\ [][NextChart]_vars

\* ------------------------------------------------- claims on parse_csv_rows
Returned == parse_pc = "returned"
View == parse_args.docker_overhead_view
Requested == Range(parse_args.deployment_mechanisms)
RawIndices == DOMAIN results_file.rows
RawMech(i) == results_file.rows[i].mech
RawMechs == {RawMech(i) : i \in RawIndices}
\* The label the returned frame gives raw row i, as a set: empty when the row
\* was removed.
LabelOf(i) == {r.mech : r \in {q \in Range(parsed_df.rows) : q.idx = i}}

\* C8 (as claimed): under view 1 the rows of docker_container_and_daemon are
\* relabelled "docker" and kept, and every row of docker_container or of
\* docker_container_and_daemon_extra_overhead is removed.
C8_FullDaemonDropsExtraOverhead ==
    (Returned /\ View = DOCKER_OVERHEAD_INCLUDE_FULL_DAEMON) =>
        \A i \in RawIndices :
            /\ (RawMech(i) = DockerContainerAndDaemon /\ Docker \in Requested)
                   => LabelOf(i) = {Docker}
            /\ RawMech(i) \in {DockerContainer, DockerContainerAndDaemonExtraOverhead}
                   => LabelOf(i) = {}

\* C9: under view 0, for a file holding rows of the three docker variants and
\* of native, with docker and native requested, the surviving mechanisms are
\* exactly {docker, native}: docker_container rows are relabelled "docker",
\* native rows keep their name, every row of the two daemon variants is dropped,
\* and the surviving rows keep their order and their trial numbers.
C9_ExcludeDaemonCanonicalization ==
    (/\ Returned
     /\ View = DOCKER_OVERHEAD_EXCLUDE_DAEMON
     /\ RawMechs = RawMechanisms
     /\ {Docker, Native} \subseteq Requested) =>
        /\ {r.mech : r \in Range(parsed_df.rows)} = {Docker, Native}
        /\ \A i \in RawIndices :
              LabelOf(i) = IF RawMech(i) = DockerContainer THEN {Docker}
                           ELSE IF RawMech(i) = Native THEN {Native}
                           ELSE {}
        /\ \A a, b \in DOMAIN parsed_df.rows :
              a < b => parsed_df.rows[a].idx < parsed_df.rows[b].idx
        /\ \A a \in DOMAIN parsed_df.rows :
              parsed_df.rows[a].trial = results_file.rows[parsed_df.rows[a].idx].trial

C9_Witness ==
    /\ Returned
    /\ View = DOCKER_OVERHEAD_EXCLUDE_DAEMON
    /\ RawMechs = RawMechanisms
    /\ {Docker, Native} \subseteq Requested
    /\ Len(parsed_df.rows) = 2

\* C10: under view 2 a returned row is labelled "docker" only if its raw
\* mechanism was docker_container_and_daemon_extra_overhead, and every such
\* raw row is returned as "docker" when docker is requested; every row of
\* docker_container or docker_container_and_daemon is removed; the policy step
\* neither relabels nor removes a row of a non-docker mechanism (it is
\* returned under its own name whenever that name is requested).
C10_AdditionalDaemonOnly ==
    (Returned /\ View = DOCKER_OVERHEAD_INCLUDE_ADDITIONAL_DAEMON) =>
        LET policy == ApplyDockerOverheadView(results_file.rows, View)
        IN \A i \in RawIndices :
            /\ Docker \in LabelOf(i) => RawMech(i) = DockerContainerAndDaemonExtraOverhead
            /\ (RawMech(i) = DockerContainerAndDaemonExtraOverhead /\ Docker \in Requested)
                   => LabelOf(i) = {Docker}
            /\ RawMech(i) \in {DockerContainer, DockerContainerAndDaemon}
                   => LabelOf(i) = {}
            /\ ~StartsWith(RawMech(i), Docker) =>
                   /\ results_file.rows[i] \in Range(policy)
                   /\ RawMech(i) \in Requested => LabelOf(i) = {RawMech(i)}

C10_Witness ==
    /\ Returned
    /\ View = DOCKER_OVERHEAD_INCLUDE_ADDITIONAL_DAEMON
    /\ RawMechs = RawMechanisms
    /\ Docker \in Requested
    /\ {r.mech : r \in Range(parsed_df.rows)} = {Docker, Native}

\* -------------------------------------------------- claims on the analysis
Analysed == main_pc \in {"analyzed", "storing"}
\* The distinct mechanisms of the frame and the row a mechanism first appears in.
FrameMechs == {df.rows[i].mech : i \in DOMAIN df.rows}
FirstIdx(m) ==
    CHOOSE i \in DOMAIN df.rows :
        df.rows[i].mech = m /\ \A j \in 1..(i - 1) : df.rows[j].mech # m
MetricIdx(c) == CHOOSE j \in DOMAIN df.columns : df.columns[j] = c
\* Null in the sense of pandas: None or nan.
IsNull(c) == c.k \in {"none", "nan"}
\* The text of a cell in a CSV file.
AsText(c) == IF IsNull(c) THEN EmptyText ELSE c
\* The file that holds the rows of file, then those of frame, as text, under
\* the columns of both; a row lacking a column has an empty cell there.
StoreWith(file, frame) ==
    LET columns == file.columns
                     \o SelectSeq(frame.columns, LAMBDA c : c \notin Range(file.columns))
        text(r) == [r EXCEPT !.cells = [c \in Range(columns) |->
                                          IF c \in DOMAIN r.cells THEN AsText(r.cells[c])
                                          ELSE EmptyText]]
    IN [exists |-> TRUE,
        columns |-> columns,
        rows |-> [i \in DOMAIN file.rows |-> text(file.rows[i])]
                    \o [i \in DOMAIN frame.rows |-> text(frame.rows[i])]]
\* The frame with its rows in the opposite order.
Reversed(frame) ==
    [frame EXCEPT !.rows = [i \in DOMAIN frame.rows |->
                              frame.rows[Len(frame.rows) - i + 1]]]
\* The comparator's significance flag for a call <<x, y, metric>>.
FlagOf(call) ==
    welch_t_test_with_confidence_interval(
        GetGroup(df, call[1], call[3]), GetGroup(df, call[2], call[3]),
        args.significance_level).statistically_significant

\* C1 (as claimed): with include_insignificant_output false, a comparison
\* (pair, metric) whose significance flag is false contributes no row to the
\* pair's comparison CSV and no line to the console.
C1_InsignificantExcluded ==
    (Analysed /\ ~args.include_insignificant_output) =>
        \A k \in DOMAIN analysis.comparator_calls :
            LET call == analysis.comparator_calls[k]
            IN ~FlagOf(call) =>
                 /\ \A f \in Range(analysis.comparison_files) :
                        (f.x = call[1] /\ f.y = call[2]) =>
                            \A i \in DOMAIN f.rows : f.rows[i].metric # call[3]
                 /\ \A i \in DOMAIN analysis.console :
                        ~(/\ analysis.console[i].x = call[1]
                          /\ analysis.console[i].y = call[2]
                          /\ analysis.console[i].metric = call[3])

\* C2: for a frame of at least two mechanisms, the aggregate frame the
\* analysis returned under the run's flags is the one it returns with
\* include_insignificant_output, view_output and save_output all off (hence
\* the same under every value of the three), whatever the outcome of each
\* comparison; once the analysis has returned the store update is called,
\* whatever save_output is, and when the run is over the store holds what it
\* held before and then the rows of that aggregate frame.
C2_AggregateRegardlessOfFlags ==
    (Analysed /\ Cardinality(FrameMechs) >= 2) =>
        LET reference ==
                analyze_data_significant_difference(
                    df, get_metrics_in_df(df),
                    [args EXCEPT !.include_insignificant_output = FALSE,
                                 !.view_output = FALSE,
                                 !.save_output = FALSE]).aggregate_df
        IN /\ analysis.aggregate_df = reference
           /\ main_pc = "analyzed" => ENABLED CallStoreUpdate
           /\ MainDone => store = StoreWith(first_store, reference)

C2_Witness ==
    /\ MainDone
    /\ Cardinality(FrameMechs) >= 2
    /\ ~args.save_output
    /\ ~args.include_insignificant_output
    /\ \E k \in DOMAIN analysis.comparator_calls : ~FlagOf(analysis.comparator_calls[k])
    /\ first_store.exists
    /\ Len(store.rows) = Len(first_store.rows) + Cardinality(FrameMechs)

\* C3: in the returned aggregate frame the mean, error-lower and error-upper
\* of a mechanism that has a partner are, for each metric, the mean of the
\* mechanism's own sample and the distances from it to the ends of the
\* confidence interval of that sample alone, whichever pairs it was in; and
\* the set of aggregate rows is that returned for the rows in the opposite
\* order, which enumerates the pairs in another order.
C3_AggregateFromOwnSample ==
    Analysed =>
        /\ \A i \in DOMAIN analysis.aggregate_df.rows : \A metric \in Range(df.columns) :
              LET r == analysis.aggregate_df.rows[i]
                  arr == GetGroup(df, r.mech, metric)
                  mean == SampleMean(arr)
                  ci == TConfintMean(arr, args.significance_level)
              IN Cardinality(FrameMechs) >= 2 =>
                    /\ r.cells[<<metric, "mean">>] = mean
                    /\ r.cells[<<metric, "error-lower">>] = FSub(mean, ci[1])
                    /\ r.cells[<<metric, "error-upper">>] = FSub(ci[2], mean)
        /\ Range(analysis.aggregate_df.rows) =
              Range(analyze_data_significant_difference(
                        Reversed(df), get_metrics_in_df(df), args).aggregate_df.rows)

C3_Witness ==
    /\ Analysed
    /\ Cardinality(FrameMechs) = 3
    /\ Len(df.rows) = MaxRows
    /\ df.rows[1].mech # df.rows[Len(df.rows)].mech
    /\ \E i \in DOMAIN analysis.aggregate_df.rows :
          /\ analysis.aggregate_df.rows[i].mech = df.rows[1].mech
          /\ IsNumber(analysis.aggregate_df.rows[i].cells[<<"time", "error-upper">>])

\* C6: with n distinct mechanisms and m metrics the comparator is called
\* n(n-1)/2 * m times: once for every unordered pair of distinct mechanisms
\* and every metric, never for a mechanism with itself, the mechanism that
\* appears first in the frame being the first of the pair; the calls are in
\* the order of the first appearance of the first mechanism, then of the
\* second, then of the metrics; a pair's comparison CSV has one row per metric.
C6_PairsAndCalls ==
    Analysed =>
        LET calls == analysis.comparator_calls
            n == Cardinality(FrameMechs)
            m == Len(df.columns)
            key(c) == <<FirstIdx(c[1]), FirstIdx(c[2]), MetricIdx(c[3])>>
            before(a, b) ==
                \/ a[1] < b[1]
                \/ a[1] = b[1] /\ a[2] < b[2]
                \/ a[1] = b[1] /\ a[2] = b[2] /\ a[3] < b[3]
        IN /\ 2 * Len(calls) = n * (n - 1) * m
           /\ \A k \in DOMAIN calls :
                 /\ calls[k][1] # calls[k][2]
                 /\ FirstIdx(calls[k][1]) < FirstIdx(calls[k][2])
           /\ \A x, y \in FrameMechs : \A j \in DOMAIN df.columns :
                 x # y =>
                    Cardinality({k \in DOMAIN calls :
                                    /\ {calls[k][1], calls[k][2]} = {x, y}
                                    /\ calls[k][3] = df.columns[j]}) = 1
           /\ \A k, l \in DOMAIN calls : k < l => before(key(calls[k]), key(calls[l]))
           /\ \A f \in Range(analysis.comparison_files) : Len(f.rows) = m
           /\ args.save_output => 2 * Len(analysis.comparison_files) = n * (n - 1)

C6_Witness ==
    /\ Analysed
    /\ Cardinality(FrameMechs) = 3
    /\ Len(df.columns) = 2
    /\ Len(analysis.comparator_calls) = 6
    /\ df.rows[1].mech = WasmAot
    /\ analysis.comparator_calls[1][1] = WasmAot

RECURSIVE RowsWritten(_)
\* The rows of the records of the first k writes.
RowsWritten(k) ==
    IF k = 0 THEN 0 ELSE Len(log[k].records.rows) + RowsWritten(k - 1)

RECURSIVE InRunOrder(_)
\* The store before the first call, then the records of the first k writes.
InRunOrder(k) ==
    IF k = 0 THEN first_store
    ELSE Force(InRunOrder(k - 1), LAMBDA before : StoreWith(before, log[k].records))

RECURSIVE AsRead(_)
\* The store after the k-th write if each write keeps what its call read and
\* nothing else: the state after the writes its call observed, then its records.
AsRead(k) ==
    IF k = 0 THEN first_store
    ELSE Force(AsRead(log[k].observed), LAMBDA before : StoreWith(before, log[k].records))

\* C4: when the calls are sequential the store is, after any number of them,
\* what it was before the first call followed by the records of every call in
\* the order of the calls, every row kept (a column a row lacks being empty):
\* the first call on a missing store writes its records as they are, and the
\* number of rows is the sum, also when keys repeat or columns differ.
C4_SequentialConcatenation ==
    /\ store = InRunOrder(Len(log))
    /\ Len(store.rows) = Len(first_store.rows) + RowsWritten(Len(log))
    /\ (Len(log) = 1 /\ ~first_store.exists) =>
          /\ store.columns = log[1].records.columns
          /\ DOMAIN store.rows = DOMAIN log[1].records.rows
          /\ \A i \in DOMAIN store.rows :
                store.rows[i] =
                   [log[1].records.rows[i] EXCEPT
                      !.cells = [c \in DOMAIN log[1].records.rows[i].cells |->
                                   AsText(log[1].records.rows[i].cells[c])]]

C4_Witness ==
    /\ Len(log) = MaxCalls
    /\ \A r \in Runs : ~Running(r)
    /\ log[1].records = log[2].records
    /\ log[3].records.columns # log[1].records.columns
    /\ Len(store.rows) > Len(log[3].records.rows) + 2 * Len(log[1].records.rows)

\* C5: when the calls are concurrent each write leaves in the store what its
\* call read (nothing, if it found no file) followed by its own records; so a
\* write whose call read before an earlier write leaves the store without the
\* rows of that write, and the store has fewer rows than were handed to it.
C5_WriteKeepsOnlyWhatItsCallRead ==
    /\ store = AsRead(Len(log))
    /\ (Len(log) >= 2 /\ log[Len(log)].observed < Len(log) - 1) =>
          Len(store.rows) < Len(first_store.rows) + RowsWritten(Len(log))

\* Both runs have returned and the rows of the first to write are lost, the
\* store having existed before.
C5_Witness ==
    /\ first_store.exists
    /\ \A r \in Runs : store_pc[r] = "returned"
    /\ Len(log) = 2
    /\ log[2].observed = 0
    /\ store = StoreWith(first_store, log[2].records)
    /\ Len(store.rows) < Len(first_store.rows) + RowsWritten(2)

\* The same, neither run having found the store.
C5_WitnessNoStore ==
    /\ ~first_store.exists
    /\ \A r \in Runs : store_pc[r] = "returned"
    /\ Len(log) = 2
    /\ log[2].observed = 0
    /\ store = StoreWith(NoFile, log[2].records)
    /\ Len(store.rows) < RowsWritten(2)

\* ------------------------------------------------ claims on computed metrics
\* The results file holds both raw columns; the caller requested both.
BothInFile == {"cpu-cycles", "instructions"} \subseteq Range(results_file.columns)
BothRequested == {"cpu-cycles", "instructions"} \subseteq Range(parse_args.metrics)
\* Every returned row holds the two ratios of its raw row's measurements.
RatiosOfRawRows ==
    /\ Range(COMPUTED_COLUMNS) \subseteq Range(parsed_df.columns)
    /\ \A i \in DOMAIN parsed_df.rows :
          LET raw == results_file.rows[parsed_df.rows[i].idx].vals
              row == parsed_df.rows[i].vals
          IN /\ row["instructions-per-cycle"] =
                   [k |-> "float",
                    v |-> (raw["instructions"].v * Scale) \div raw["cpu-cycles"].v]
             /\ row["cycles-per-instruction"] =
                   [k |-> "float",
                    v |-> (raw["cpu-cycles"].v * Scale) \div raw["instructions"].v]
NoRatios ==
    /\ Range(COMPUTED_COLUMNS) \cap Range(parsed_df.columns) = {}
    /\ \A i \in DOMAIN parsed_df.rows :
          Range(COMPUTED_COLUMNS) \cap DOMAIN parsed_df.rows[i].vals = {}

\* C11 (as claimed): for a perf results file that holds both cpu-cycles and
\* instructions the returned frame holds both ratios in every row, whatever
\* metrics were requested; when the file lacks either column it holds neither.
C11_DerivedWheneverBothInFile ==
    (Returned /\ parse_args.is_perf_file) =>
        IF BothInFile THEN RatiosOfRawRows ELSE NoRatios

\* C11 (amended): for a perf results file the returned frame holds both ratios
\* in every row (instructions / cpu-cycles and cpu-cycles / instructions of
\* the row's own measurements) when the file holds both columns and both are
\* among the requested metrics; when either column is absent from the file or
\* not requested, and for a file that is not a perf file, it holds neither.
C11_DerivedWhenBothRequested ==
    Returned =>
        IF parse_args.is_perf_file /\ BothInFile /\ BothRequested
        THEN RatiosOfRawRows
        ELSE NoRatios

C11_Witness ==
    /\ Returned
    /\ parse_args.is_perf_file
    /\ BothInFile
    /\ BothRequested
    /\ \E i \in DOMAIN parsed_df.rows :
          /\ parsed_df.rows[i].vals["cpu-cycles"] = IntCell(1000)
          /\ parsed_df.rows[i].vals["instructions"] = IntCell(500)
          /\ parsed_df.rows[i].vals["instructions-per-cycle"] = FloatCell(50)
          /\ parsed_df.rows[i].vals["cycles-per-instruction"] = FloatCell(200)

\* ------------------------------------------------------ claims on the merge
Merged == main_pc = "merged"
\* The multiset of a sample: how often each value occurs in it.
BagOf(arr) == [v \in Range(arr) |-> Cardinality({i \in DOMAIN arr : arr[i] = v})]
\* The sample of a mechanism for a metric in a frame (empty if it has no row).
SampleIn(frame, mech, metric) ==
    LET rows == SelectSeq(frame.rows, LAMBDA r : r.mech = mech)
    IN [i \in DOMAIN rows |-> rows[i].vals[metric]]

\* C12 (as claimed): for every mechanism and metric the sample taken from the
\* merged frame is the same multiset as the mechanism's sample in the frame
\* the metric comes from, for all pairs of frames.
C12_MergedSamplesAreOwnSamples ==
    Merged =>
        \A mech \in TableMechanisms :
            /\ BagOf(SampleIn(df, mech, "cpu-cycles"))
                  = BagOf(SampleIn(perf_df, mech, "cpu-cycles"))
            /\ BagOf(SampleIn(df, mech, "time"))
                  = BagOf(SampleIn(time_df, mech, "time"))

\* -------------------------------- claims on the cross-experiment comparison
Ended == chart_pc = "ended"
\* A requested comparison lacks one of its required arguments.
MissingArgument ==
    \/ cli.compare_across_models /\ (~cli.models_to_compare.given \/ ~cli.input.given)
    \/ cli.compare_across_inputs /\ (~cli.inputs_to_compare.given \/ ~cli.model.given)

\* C13 (as claimed): whenever a requested comparison lacks a required argument
\* the run ends with a message and exit status 1 and no figure of any
\* comparison has been drawn, shown or saved.
C13_NoChartBeforeArgumentError ==
    (Ended /\ MissingArgument) =>
        /\ exit_status = "exit 1"
        /\ messages # <<>>
        /\ figures = <<>>

\* The run drew and saved every line of a figure and was then refused for a
\* missing argument.
C13_ChartedThenRefused ==
    /\ Ended
    /\ exit_status = "exit 1"
    /\ messages # <<>>
    /\ \E i \in DOMAIN figures :
          /\ figures[i].saved
          /\ figures[i].lines # <<>>
          /\ \A j \in DOMAIN figures[i].lines : ~figures[i].lines[j].raised

\* The key (model, input) a figure sweeps at the value v.
KeyOf(f, v) == IF f.across_models THEN <<v, f.constant_value>> ELSE <<f.constant_value, v>>
\* The rows the store holds for a key and a mechanism.
StoreRowsFor(key, mech) ==
    SelectSeq(aggregate_frame.rows,
              LAMBDA r : r.model = key[1] /\ r.input = key[2] /\ r.mech = mech)
\* The mechanisms with a row for some swept value of the figure.
MechanismsOf(f) ==
    {mech \in Range(StoreMechanisms) :
        \E v \in Range(f.variable_values) : StoreRowsFor(KeyOf(f, v), mech) # <<>>}
\* Every mechanism of the figure has a row for every swept value, and some
\* key of the figure has more than one row.
EveryKeyPresent(f) ==
    \A mech \in MechanismsOf(f) : \A v \in Range(f.variable_values) :
        StoreRowsFor(KeyOf(f, v), mech) # <<>>
SomeKeyRepeated(f) ==
    \E mech \in MechanismsOf(f) : \E v \in Range(f.variable_values) :
        Len(StoreRowsFor(KeyOf(f, v), mech)) > 1

\* C16 (as claimed): when the store holds more than one row for a key of a
\* comparison (every key of the comparison being present), each mechanism's
\* line is drawn without failing, with exactly one point per swept value.
C16_DuplicateKeysHandled ==
    \A n \in DOMAIN figures :
        (EveryKeyPresent(figures[n]) /\ SomeKeyRepeated(figures[n])) =>
            /\ {figures[n].lines[j].label : j \in DOMAIN figures[n].lines}
                   = MechanismsOf(figures[n])
            /\ \A j \in DOMAIN figures[n].lines :
                  /\ ~figures[n].lines[j].raised
                  /\ Len(figures[n].lines[j].points) = Len(figures[n].variable_values)

\* No two rows of the store have the same model, input and mechanism.
NoRepeatedKey ==
    \A i, j \in DOMAIN aggregate_frame.rows :
        (/\ aggregate_frame.rows[i].model = aggregate_frame.rows[j].model
         /\ aggregate_frame.rows[i].input = aggregate_frame.rows[j].input
         /\ aggregate_frame.rows[i].mech = aggregate_frame.rows[j].mech) => i = j
\* The line of the figure for the mechanism plots the row r at position i.
PlotsAt(f, mech, i, r) ==
    \E j \in DOMAIN f.lines :
        /\ f.lines[j].label = mech
        /\ ~f.lines[j].raised
        /\ f.lines[j].points[i].x = f.variable_values[i]
        /\ f.lines[j].points[i].mean = r.cells[<<f.metric, "mean">>]
        /\ f.lines[j].points[i].error_lower = r.cells[<<f.metric, "error-lower">>]
        /\ f.lines[j].points[i].error_upper = r.cells[<<f.metric, "error-upper">>]

\* C18 (as claimed): with one row per key in the store, the value plotted for a
\* mechanism at the i-th swept value is the mean and error of the store row of
\* that swept value, the requested constant and that mechanism, whatever the
\* order of the rows and of the swept values and whether or not every key has
\* a row.
C18_PointIsRowOfSweptValue ==
    NoRepeatedKey =>
        \A n \in DOMAIN figures : \A mech \in Range(StoreMechanisms) :
            \A i \in DOMAIN figures[n].variable_values :
                LET rows == StoreRowsFor(KeyOf(figures[n], figures[n].variable_values[i]), mech)
                IN rows # <<>> => PlotsAt(figures[n], mech, i, rows[1])

\* A line drawn without failing plots, at a swept value, the mean of the row
\* of another swept value.
C18_PlottedAtOtherValue ==
    /\ NoRepeatedKey
    /\ \E n \in DOMAIN figures : \E j \in DOMAIN figures[n].lines :
          /\ ~figures[n].lines[j].raised
          /\ \E i \in DOMAIN figures[n].lines[j].points :
                \E r \in Range(aggregate_frame.rows) :
                    /\ r.mech = figures[n].lines[j].label
                    /\ Field(r, IF figures[n].across_models THEN "model" ELSE "input")
                           # figures[n].variable_values[i]
                    /\ figures[n].lines[j].points[i].mean = r.cells[<<figures[n].metric, "mean">>]

\* -------------------------------------------- claims on the printed details
\* The console lines "<A> is ... times larger than <B> for <metric>": A is the
\* field x of the line and B its field y.
RatioLines ==
    {i \in DOMAIN analysis.console : analysis.console[i].text = "times larger than"}
MeanOf(mechanism, metric) == SampleMean(GetGroup(df, mechanism, metric))
\* The half width of the interval of the difference of the two samples' means.
HalfWidthOf(a, b, metric) ==
    LET ci == TConfintDiff(GetGroup(df, a, metric), GetGroup(df, b, metric),
                           args.significance_level)
    IN FDiv(FSub(ci[2], ci[1]), IntCell(2))

\* C19 (as claimed): every printed ratio line names first the mechanism with
\* the larger sample mean and second the one with the smaller, and its range
\* is larger mean / smaller mean, less and plus half width / smaller mean.
C19_LargerMeanNamedFirst ==
    Analysed =>
        \A i \in RatioLines :
            LET l == analysis.console[i]
                larger == MeanOf(l.x, l.metric)
                smaller == MeanOf(l.y, l.metric)
                ratio == FDiv(larger, smaller)
                ratio_ci == FDiv(HalfWidthOf(l.x, l.y, l.metric), smaller)
            IN /\ FLeq(smaller, larger)
               /\ l.body = <<FSub(ratio, ratio_ci), FAdd(ratio, ratio_ci)>>

\* A ratio line is printed for two mechanisms of different means and names
\* first the one with the smaller mean.
C19_SmallerMeanNamedFirst ==
    /\ Analysed
    /\ \E i \in RatioLines :
          FLess(MeanOf(analysis.console[i].x, analysis.console[i].metric),
                MeanOf(analysis.console[i].y, analysis.console[i].metric))
\* A ratio line is printed for two mechanisms of different means and names
\* first the one with the larger mean.
C19_SomeLargerMeanNamedFirst ==
    /\ Analysed
    /\ \E i \in RatioLines :
          FLess(MeanOf(analysis.console[i].y, analysis.console[i].metric),
                MeanOf(analysis.console[i].x, analysis.console[i].metric))

\* ------------------------------------------------- claims on the comparator
\* A sample the comparator cannot estimate a variance from, or whose variance
\* is zero: fewer than two observations, or all observations equal.
Degenerate(arr) == Len(arr) < 2 \/ \A i, j \in DOMAIN arr : arr[i] = arr[j]
SampleOf(mechanism, metric) == GetGroup(df, mechanism, metric)
\* What the comparator returned for a recorded call.
ResultOf(call) ==
    welch_t_test_with_confidence_interval(SampleOf(call[1], call[3]),
                                          SampleOf(call[2], call[3]),
                                          args.significance_level)

\* C14 (as claimed): no comparator call returns a result for a sample of fewer
\* than two observations or of zero variance, and no field of the aggregate
\* frame, hence no row of the store, is computed from such a sample.
C14_DegenerateSampleRejected ==
    Analysed =>
        /\ \A k \in DOMAIN analysis.comparator_calls :
              LET call == analysis.comparator_calls[k]
              IN /\ ~Degenerate(SampleOf(call[1], call[3]))
                 /\ ~Degenerate(SampleOf(call[2], call[3]))
        /\ \A i \in DOMAIN analysis.aggregate_df.rows : \A metric \in Range(df.columns) :
              analysis.aggregate_df.rows[i].cells[<<metric, "mean">>] # None
                  => ~Degenerate(SampleOf(analysis.aggregate_df.rows[i].mech, metric))

\* The interval lies entirely above zero or entirely below zero.
ExcludesZero(ci_lower, ci_upper) == FLess(Zero, ci_lower) \/ FLess(ci_upper, Zero)

\* C15 (as claimed): a comparison is reported significant only when the
\* interval of the mean difference lies entirely above or entirely below
\* zero, and for two identical samples the interval straddles zero and the
\* comparison is not significant.
C15_SignificantOnlyIfZeroExcluded ==
    Analysed =>
        \A k \in DOMAIN analysis.comparator_calls :
            LET call == analysis.comparator_calls[k]
                w == ResultOf(call)
            IN /\ w.statistically_significant => ExcludesZero(w.ci_lower, w.ci_upper)
               /\ SampleOf(call[1], call[3]) = SampleOf(call[2], call[3]) =>
                     /\ FLeq(w.ci_lower, Zero)
                     /\ FLeq(Zero, w.ci_upper)
                     /\ ~w.statistically_significant

\* The fields of a metric in an aggregate row are defined: numbers, neither
\* None nor nan.
Defined(row, metric) ==
    \A e \in {"mean", "error-lower", "error-upper"} : IsNumber(row.cells[<<metric, e>>])

\* C17 (as claimed): in every row of the aggregate frame and every metric
\* whose fields are defined, error-lower and error-upper are the distances
\* from the mean to the ends of the mechanism's own interval, both >= 0, and
\* the mean lies strictly between mean - error-lower and mean + error-upper.
C17_MeanStrictlyInside ==
    Analysed =>
        \A i \in DOMAIN analysis.aggregate_df.rows : \A metric \in Range(df.columns) :
            LET row == analysis.aggregate_df.rows[i]
                mean == row.cells[<<metric, "mean">>]
                lower == row.cells[<<metric, "error-lower">>]
                upper == row.cells[<<metric, "error-upper">>]
                ci == TConfintMean(SampleOf(row.mech, metric), args.significance_level)
            IN Defined(row, metric) =>
                  /\ lower = FSub(mean, ci[1])
                  /\ upper = FSub(ci[2], mean)
                  /\ FLeq(Zero, lower)
                  /\ FLeq(Zero, upper)
                  /\ FLess(FSub(mean, lower), mean)
                  /\ FLess(mean, FAdd(mean, upper))

=============================================================================
